---- MODULE Spec2Model ----
(***************************************************************************)
(* Lens patent keyword search (src/app.py): the retrying POST              *)
(* (_post_with_retry), the query builder (build_query), the record         *)
(* normaliser (extract_rows), the scroll pagination loop                   *)
(* (lens_search_with_scroll) and the run handler of the Streamlit page.    *)
(*                                                                         *)
(* Representation.  A Python str is a sequence of text chunks (<<>> is     *)
(* the empty string, \o is concatenation).  A value decoded from the       *)
(* upstream JSON is a tagged record: None, Str(s), Dict(m), List(l); a     *)
(* missing key is a key outside DOMAIN m.  Durations of the rate-limit     *)
(* backoff are in seconds, the inter-page delay is in tenths of a second.  *)
(***************************************************************************)
EXTENDS Integers, Sequences, FiniteSets, TLC

VARIABLES
    token,        \* st.text_input "Lens API Token"
    keyword,      \* st.text_input keyword
    scope,        \* st.selectbox scope
    date_from,    \* f"{year_from}-01-01"
    max_results,  \* st.number_input, passed as int(max_results)
    delay_sec,    \* st.slider, tenths of a second
    pc,           \* control point of the run
    ui,           \* what the page shows once the handler has ended
    headers,      \* lens_search_with_scroll: headers
    payload,      \* lens_search_with_scroll: payload
    all_rows,     \* lens_search_with_scroll: all_rows
    scroll_id,    \* lens_search_with_scroll: scroll_id
    debug,        \* lens_search_with_scroll: debug
    raised,       \* the exception lens_search_with_scroll raised, or NoException
    result,       \* the (df, dbg) pair the handler received, or NoResult
    max_retries,  \* _post_with_retry: max_retries
    backoff_sec,  \* _post_with_retry: backoff_sec
    attempt,      \* _post_with_retry: attempt
    r,            \* _post_with_retry / lens_search_with_scroll: r
    resps,        \* history: status codes answered to the current _post_with_retry call
    sleeps,       \* history: backoff sleeps of the current _post_with_retry call, in order
    calls,        \* history: number of _post_with_retry calls begun (page requests)
    posts,        \* history: number of requests.post calls made in this run
    callPosts,    \* history: number of requests.post calls made by the current call
    delays,       \* history: inter-page sleeps performed, in order
    recv,         \* history: the non-empty data lists of the 200 pages, in order
    sent          \* history: the payload of every _post_with_retry call, in order

vars == <<token, keyword, scope, date_from, max_results, delay_sec, pc, ui,
          headers, payload, all_rows, scroll_id, debug, raised, result,
          max_retries, backoff_sec, attempt, r, resps, sleeps, calls, posts,
          callPosts, delays, recv, sent>>

inputVars == <<token, keyword, scope, date_from, max_results, delay_sec>>
searchVars == <<headers, payload, all_rows, scroll_id, debug, raised, result,
                calls, delays, recv, sent, ui>>

----------------------------------------------------------------------------
(* Bounds of the model *)

\* widest cap tried below the page-size limit
MaxResults == 2
\* most records the upstream puts in one page
MaxPageLen == 2
\* most records the upstream delivers during one search
MaxCorpus == 3
\* widest max_retries tried when _post_with_retry is exercised on its own
MaxRetriesArg == 5
\* widest backoff_sec tried when _post_with_retry is exercised on its own
MaxBackoffArg == 3

(* Program constants *)

\* _post_with_retry(max_retries: int = 4)
DEFAULT_MAX_RETRIES == 4
\* _post_with_retry(backoff_sec: float = 2.0)
DEFAULT_BACKOFF_SEC == 2
\* "size": min(100, max_results)
PAGE_SIZE_LIMIT == 100
\* if r.status_code == 429
HTTP_TOO_MANY_REQUESTS == 429
HTTP_OK == 200
HTTP_NO_CONTENT == 204
HTTP_UNAUTHORIZED == 401
HTTP_FORBIDDEN == 403

----------------------------------------------------------------------------
(* Python values *)

None == [t |-> "none"]
Str(s) == [t |-> "str", v |-> s]
Dict(m) == [t |-> "dict", m |-> m]
List(l) == [t |-> "list", v |-> l]
EmptyMap == [k \in {} |-> None]

IsNone(x) == x.t = "none"
IsStr(x) == x.t = "str"
IsDict(x) == x.t = "dict"
IsList(x) == x.t = "list"

\* bool(x)
Truthy(x) ==
    CASE IsNone(x) -> FALSE
      [] IsStr(x)  -> x.v # <<>>
      [] IsDict(x) -> DOMAIN x.m # {}
      [] IsList(x) -> x.v # <<>>

\* d.get(k, default)
Get(d, k, default) == IF k \in DOMAIN d.m THEN d.m[k] ELSE default

\* a or b
Or(a, b) == IF Truthy(a) THEN a ELSE b

\* f"{x}" of a str or of None
Format(x) == IF IsNone(x) THEN <<"None">> ELSE x.v

Min(a, b) == IF a < b THEN a ELSE b
Max(a, b) == IF a > b THEN a ELSE b

Whitespace == {" ", "\t", "\n"}

RECURSIVE LStrip(_)
LStrip(s) == IF s # <<>> /\ Head(s) \in Whitespace THEN LStrip(Tail(s)) ELSE s

RECURSIVE RStrip(_)
RStrip(s) ==
    IF s # <<>> /\ s[Len(s)] \in Whitespace
    THEN RStrip(SubSeq(s, 1, Len(s) - 1))
    ELSE s

\* str.strip()
Strip(s) == RStrip(LStrip(s))

\* seq[:n]
SliceTo(seq, n) ==
    IF n >= 0
    THEN SubSeq(seq, 1, Min(n, Len(seq)))
    ELSE SubSeq(seq, 1, Max(0, Len(seq) + n))

RECURSIVE Concat(_)
Concat(ss) == IF ss = <<>> THEN <<>> ELSE Head(ss) \o Concat(Tail(ss))

----------------------------------------------------------------------------
(* build_query *)

\* {"match": {field: keyword}}
Match(field, kw) == [match |-> (field :> kw)]

\* {"bool": {"should": [...], "minimum_should_match": 1}}
ShouldOf(fields, kw) ==
    [bool |-> [should |-> [i \in 1..Len(fields) |-> Match(fields[i], kw)],
               minimum_should_match |-> 1]]

\* variant: the abstract branch matches on title (a copied line left unchanged)
MustOf_AbstractOnTitle(kw, sc) ==
    IF sc = "title" THEN <<Match("title", kw)>>
    ELSE IF sc = "abstract" THEN <<Match("title", kw)>>
    ELSE IF sc = "title+abstract" THEN <<ShouldOf(<<"title", "abstract">>, kw)>>
    ELSE <<ShouldOf(<<"title", "abstract", "claim">>, kw)>>

\* the must list chosen by scope
MustOf(kw, sc) ==
    IF sc = "title" THEN <<Match("title", kw)>>
    ELSE IF sc = "abstract" THEN <<Match("abstract", kw)>>
    ELSE IF sc = "title+abstract" THEN <<ShouldOf(<<"title", "abstract">>, kw)>>
    ELSE <<ShouldOf(<<"title", "abstract", "claim">>, kw)>>

\* the filters list
FiltersOf(df) ==
    IF Truthy(df)
    THEN <<[range |-> [date_published |-> [gte |-> df]]]>>
    ELSE <<>>

build_query(kw, sc, df) ==
    LET must == MustOf(Strip(kw), sc)
        filters == FiltersOf(df)
    IN  IF filters # <<>>
        THEN [bool |-> [must |-> must, filter |-> filters]]
        ELSE [bool |-> [must |-> must]]

----------------------------------------------------------------------------
(* extract_rows *)

LENS_LINK_PREFIX == <<"https://www.lens.org/lens/patent/">>
GOOGLE_LINK_PREFIX == <<"https://patents.google.com/patent/">>
EmptyStr == Str(<<>>)
EmptyDict == Dict(EmptyMap)

\* item.get("biblio", {}) or {}
BiblioOf(item) == Or(Get(item, "biblio", EmptyDict), EmptyDict)

\* biblio.get("publication_reference", {}) or {}
PubRefOf(biblio) == Or(Get(biblio, "publication_reference", EmptyDict), EmptyDict)

\* x.get("text", "") or x.get("title", "")
TextOrTitle(x) == Or(Get(x, "text", EmptyStr), Get(x, "title", EmptyStr))

\* the title_text chosen from biblio.get("invention_title")
TitleOf(biblio) ==
    LET inv_title == Get(biblio, "invention_title", None)
    IN  IF IsDict(inv_title) THEN TextOrTitle(inv_title)
        ELSE IF IsList(inv_title) /\ Truthy(inv_title)
        THEN LET t0 == Or(inv_title.v[1], EmptyDict)
             IN  IF IsDict(t0) THEN TextOrTitle(t0) ELSE EmptyStr
        ELSE EmptyStr

\* variant: no link without a kind (the elif branch is missing)
GoogleLink_KindRequired(jurisdiction, doc_number, kind) ==
    IF Truthy(jurisdiction) /\ Truthy(doc_number) /\ Truthy(kind)
    THEN Str(GOOGLE_LINK_PREFIX \o Format(jurisdiction) \o Format(doc_number)
             \o Format(kind))
    ELSE EmptyStr

\* the google_link chosen from jurisdiction, doc_number and kind
GoogleLink(jurisdiction, doc_number, kind) ==
    IF Truthy(jurisdiction) /\ Truthy(doc_number) /\ Truthy(kind)
    THEN Str(GOOGLE_LINK_PREFIX \o Format(jurisdiction) \o Format(doc_number)
             \o Format(kind))
    ELSE IF Truthy(jurisdiction) /\ Truthy(doc_number)
    THEN Str(GOOGLE_LINK_PREFIX \o Format(jurisdiction) \o Format(doc_number))
    ELSE EmptyStr

\* an attribute lookup of the loop body fails: .get on a value that is no dict
ExtractRaises(item) ==
    \/ ~IsDict(item)
    \/ ~IsDict(BiblioOf(item))
    \/ ~IsDict(PubRefOf(BiblioOf(item)))

\* the dict appended for one item
ExtractRow(item) ==
    LET lens_id == Get(item, "lens_id", EmptyStr)
        biblio == BiblioOf(item)
        pub_ref == PubRefOf(biblio)
        jurisdiction == Or(Get(pub_ref, "jurisdiction", EmptyStr),
                           Get(pub_ref, "country", EmptyStr))
        doc_number == Or(Get(pub_ref, "doc_number", EmptyStr),
                         Get(pub_ref, "document_number", EmptyStr))
        kind == Get(pub_ref, "kind", EmptyStr)
    IN  [lens_id |-> lens_id,
         title |-> TitleOf(biblio),
         jurisdiction |-> jurisdiction,
         doc_number |-> doc_number,
         kind |-> kind,
         date_published |-> Or(Get(item, "date_published", EmptyStr),
                               Get(item, "publication_date", EmptyStr)),
         lens_link |-> Str(LENS_LINK_PREFIX \o Format(lens_id)),
         google_patents_link |-> GoogleLink(jurisdiction, doc_number, kind)]

\* the records the upstream serves in the runs of the page
Item1 ==
    Dict("lens_id" :> Str(<<"L1">>)
         @@ "biblio" :> Dict(
              "publication_reference" :> Dict("jurisdiction" :> Str(<<"US">>)
                                              @@ "doc_number" :> Str(<<"123456">>)
                                              @@ "kind" :> Str(<<"A1">>))
              @@ "invention_title" :> List(<<Dict("text" :> Str(<<"stapler">>))>>))
         @@ "date_published" :> Str(<<"2019-05-02">>))
Item2 ==
    Dict("lens_id" :> Str(<<"L2">>)
         @@ "biblio" :> Dict("publication_reference" :> Dict("country" :> Str(<<"EP">>)
                                                             @@ "document_number" :> Str(<<"77">>))
                             @@ "invention_title" :> None))
RawItems == {Item1, Item2}

\* the row of each of these records, worked out once
RowOf == [item \in RawItems |-> ExtractRow(item)]

\* rows, for data_items none of which raises
extract_rows(data_items) ==
    [i \in 1..Len(data_items) |->
        IF data_items[i] \in RawItems THEN RowOf[data_items[i]]
        ELSE ExtractRow(data_items[i])]

----------------------------------------------------------------------------
(* What the page and the upstream can supply.  max_results and delay_sec range  *)
(* over values of the parameters of lens_search_with_scroll (an int, a float):  *)
(* the page's widgets supply 10..5000 and 0.0..2.0, scaled down here, and 0 and *)
(* a negative delay stand for the values below the widgets' ranges.             *)
(* A cap of PAGE_SIZE_LIMIT + 1 is never reached: the upstream runs out first.  *)

Tokens == {<<>>, <<" ">>, <<" ", "t">>}
Keywords == {<<" ">>, <<"k", " ">>}
Scopes == {"title", "abstract", "title+abstract", "title+abstract+claims"}
Years == {"2018"}
\* tenths of a second
Delays == {-1, 2}
MaxResultsSet == (0..MaxResults) \cup {PAGE_SIZE_LIMIT + 1}
\* a cap above the page-size limit is tried with one keyword and one delay
KeywordsFor(cap) == IF cap > PAGE_SIZE_LIMIT THEN {<<"k", " ">>} ELSE Keywords
DelaysFor(cap) == IF cap > PAGE_SIZE_LIMIT THEN {2} ELSE Delays


\* the data lists of at most n records
DataLists(n) == UNION {[1..k -> RawItems] : k \in 0..n}

ScrollIds == {Str(<<"c1">>), Str(<<"c2">>)}
Texts == {<<>>, <<"body">>}
ErrorStatuses ==
    {HTTP_NO_CONTENT, HTTP_UNAUTHORIZED, HTTP_FORBIDDEN, HTTP_TOO_MANY_REQUESTS, 500}

\* the bodies tried with a status: both where the code reads r.text
TextsOf(st) == IF st = 500 THEN Texts ELSE {<<"body">>}

\* the JSON bodies of a 200 answer whose data list has at most n records
Bodies(n) ==
    LET datas == {EmptyMap, "data" :> None}
                 \cup {"data" :> List(d) : d \in DataLists(n)}
        scrolls == {EmptyMap, "scroll_id" :> None, "scroll_id" :> EmptyStr}
                   \cup {"scroll_id" :> c : c \in ScrollIds}
    IN  {Dict(d @@ c) : d \in datas, c \in scrolls}

\* the answers the upstream can give when it has n records left to deliver
Responses(n) ==
    UNION {{[status_code |-> st, text |-> tx, json |-> None] : tx \in TextsOf(st)} :
              st \in ErrorStatuses}
    \cup {[status_code |-> HTTP_OK, text |-> <<"json">>, json |-> js] :
        js \in Bodies(Min(n, MaxPageLen))}

NoResponse == [status_code |-> 0, text |-> <<>>, json |-> None]
NoException == <<>>
NoResult == [df |-> <<>>, dbg |-> None, returned |-> FALSE]
NoPayload == [k \in {} |-> None]

\* records delivered so far in this search
Delivered == Len(Concat(recv))

----------------------------------------------------------------------------
(* _post_with_retry *)

\* variant: server errors are retried like a rate limit
IsRateLimited_Or5xx(status) == status = HTTP_TOO_MANY_REQUESTS \/ status >= 500

\* if r.status_code == 429
IsRateLimited(status) == status = HTTP_TOO_MANY_REQUESTS

\* variant: the backoff is scaled by attempt instead of attempt + 1
SleepSeconds_ByAttempt(backoff, att) == backoff * att

\* sleep_s = backoff_sec * (attempt + 1)
SleepSeconds(backoff, att) == backoff * (att + 1)

\* variant: range(max_retries) in place of range(max_retries + 1)
MoreAttempts_OneFewer(att, retries) == att + 1 < retries

\* range(max_retries + 1) holds another attempt after att
MoreAttempts(att, retries) == att + 1 < retries + 1

\* the call begins: the for loop binds attempt = 0
EnterPost(pl) ==
    /\ attempt' = 0
    /\ resps' = <<>>
    /\ sleeps' = <<>>
    /\ callPosts' = 0
    /\ calls' = calls + 1
    /\ sent' = Append(sent, pl)

\* r = requests.post(...); the 429 test that follows it
Post ==
    /\ pc = "post"
    /\ \E resp \in Responses(MaxCorpus - Delivered) :
          /\ r' = resp
          /\ resps' = Append(resps, resp.status_code)
          /\ pc' = IF IsRateLimited(resp.status_code) THEN "backoff" ELSE "returned"
    /\ posts' = posts + 1
    /\ callPosts' = callPosts + 1
    /\ UNCHANGED <<inputVars, searchVars, max_retries, backoff_sec, attempt, sleeps>>

\* time.sleep(sleep_s); continue: the next attempt, or the return r after the loop
Backoff ==
    /\ pc = "backoff"
    /\ sleeps' = Append(sleeps, SleepSeconds(backoff_sec, attempt))
    /\ IF MoreAttempts(attempt, max_retries)
       THEN attempt' = attempt + 1 /\ pc' = "post"
       ELSE attempt' = attempt /\ pc' = "returned"
    /\ UNCHANGED <<inputVars, searchVars, max_retries, backoff_sec, r, resps, posts,
                   callPosts>>

----------------------------------------------------------------------------
(* lens_search_with_scroll *)

Num(n) == [t |-> "int", v |-> n]

DigitText == <<"0", "1", "2", "3", "4", "5", "6", "7", "8", "9">>

\* f"{n}" of a non-negative int
RECURSIVE Decimal(_)
Decimal(n) ==
    IF n < 10 THEN <<DigitText[n + 1]>>
    ELSE Decimal(n \div 10) \o <<DigitText[(n % 10) + 1]>>

RuntimeError(msg) == [type |-> "RuntimeError", message |-> msg]

MSG_401 == <<"401 Unauthorized: ", "the token is wrong or API access is not enabled.">>
MSG_403 == <<"403 Forbidden: ", "the API access or the plan does not allow it.">>

\* f"API Error {r.status_code}: {r.text}"
ApiErrorMessage(status, text) == <<"API Error ">> \o Decimal(status) \o <<": ">> \o text

\* variant: a 429 left over by the retries is taken as the end of the data
Classify_429AsEnd(status) ==
    IF status = HTTP_NO_CONTENT \/ status = HTTP_TOO_MANY_REQUESTS THEN "break"
    ELSE IF status = HTTP_UNAUTHORIZED THEN "raise401"
    ELSE IF status = HTTP_FORBIDDEN THEN "raise403"
    ELSE IF status # HTTP_OK THEN "raiseApi"
    ELSE "parse"

\* variant: the 204 test is missing, so a 204 is raised as an API error
Classify_No204(status) ==
    IF status = HTTP_UNAUTHORIZED THEN "raise401"
    ELSE IF status = HTTP_FORBIDDEN THEN "raise403"
    ELSE IF status # HTTP_OK THEN "raiseApi"
    ELSE "parse"

\* variant: the 403 test is missing, so a 403 falls through to the generic test
Classify_No403(status) ==
    IF status = HTTP_NO_CONTENT THEN "break"
    ELSE IF status = HTTP_UNAUTHORIZED THEN "raise401"
    ELSE IF status # HTTP_OK THEN "raiseApi"
    ELSE "parse"

\* the status tests of the loop body, in their order
Classify(status) ==
    IF status = HTTP_NO_CONTENT THEN "break"
    ELSE IF status = HTTP_UNAUTHORIZED THEN "raise401"
    ELSE IF status = HTTP_FORBIDDEN THEN "raise403"
    ELSE IF status # HTTP_OK THEN "raiseApi"
    ELSE "parse"

\* the exception raised for a response classified as a failure
ErrorFor(resp) ==
    LET c == Classify(resp.status_code)
    IN  IF c = "raise401" THEN RuntimeError(MSG_401)
        ELSE IF c = "raise403" THEN RuntimeError(MSG_403)
        ELSE RuntimeError(ApiErrorMessage(resp.status_code, resp.text))

INCLUDE_FIELDS ==
    <<"lens_id", "doc_key", "biblio.publication_reference", "biblio.invention_title",
      "date_published">>
SCROLL_TTL == "1m"

\* headers
HeadersOf(tok) ==
    [Authorization |-> <<"Bearer ">> \o Strip(tok), ContentType |-> "application/json"]

\* "size": min(100, max_results)
PageSize(cap) == Min(PAGE_SIZE_LIMIT, cap)

\* the first payload
InitialPayload(kw, sc, df, cap) ==
    [query |-> build_query(kw, sc, df), include |-> INCLUDE_FIELDS,
     scroll |-> SCROLL_TTL, size |-> PageSize(cap)]

\* the payload of every later page
ScrollPayload(sid) == [scroll_id |-> sid, include |-> INCLUDE_FIELDS]

InitialDebug == [pages |-> 0, scroll_id |-> None, last_status |-> None, returned |-> 0]

\* variant: "while len(all_rows) <= max_results"
LoopCond_Inclusive(rows, cap) == Len(rows) <= cap

\* while len(all_rows) < max_results
LoopCond(rows, cap) == Len(rows) < cap

\* data_items = js.get("data") or []
DataItems(js) == Or(Get(js, "data", None), List(<<>>))

\* variant: the cursor is replaced whenever a response carries one
ScrollIdAfter_Latest(sid, js) == Or(Get(js, "scroll_id", None), sid)

\* the scroll_id held after the "if scroll_id is None" block
ScrollIdAfter(sid, js) == IF IsNone(sid) THEN Get(js, "scroll_id", None) ELSE sid

\* variant: the page's rows are put in front of the accumulated rows
Extended_InFront(acc, rows, cap) == SliceTo(rows, cap - Len(acc)) \o acc

\* variant: the whole page is appended, with no slice to the remaining capacity
Extended_NoSlice(acc, rows, cap) == acc \o rows

\* remaining = max_results - len(all_rows); all_rows.extend(rows[:remaining])
Extended(acc, rows, cap) == acc \o SliceTo(rows, cap - Len(acc))

\* variant: "if scroll_id is None or ...", so an empty cursor does not stop the loop
StopAfterPage_NoneOnly(sid, rows, cap) == IsNone(sid) \/ Len(rows) >= cap

\* variant: the cap is left to the loop test, only a missing cursor breaks
StopAfterPage_NoCap(sid, rows, cap) == ~Truthy(sid)

\* if not scroll_id or len(all_rows) >= max_results: break
StopAfterPage(sid, rows, cap) == ~Truthy(sid) \/ Len(rows) >= cap

\* variant: the page counter is set to 1 instead of incremented
CountPage_SetToOne(dbg, status) == [dbg EXCEPT !.last_status = Num(status), !.pages = 1]

\* debug["last_status"] = r.status_code; debug["pages"] += 1
CountPage(dbg, status) ==
    [dbg EXCEPT !.last_status = Num(status), !.pages = dbg.pages + 1]

\* variant: the token is tested without strip()
TokenMissing_NoStrip(tok) == tok = <<>>

\* if not token.strip()
TokenMissing(tok) == Strip(tok) = <<>>

\* what the handler shows for the pair it received
Shown(df) == IF df = <<>> THEN "warning" ELSE "table"

\* return pd.DataFrame(all_rows), debug; the handler's display of the pair
Return(rows, dbg) ==
    /\ result' = [df |-> rows, dbg |-> dbg, returned |-> TRUE]
    /\ ui' = Shown(rows)
    /\ pc' = "done"

\* the button is pressed: the token test, then lens_search_with_scroll up to its
\* first requests.post
Run ==
    /\ pc = "idle"
    /\ IF TokenMissing(token)
       THEN /\ ui' = "error"
            /\ pc' = "stopped"
            /\ UNCHANGED <<headers, payload, all_rows, scroll_id, debug, result,
                           attempt, resps, sleeps, calls, callPosts, sent>>
       ELSE /\ headers' = HeadersOf(token)
            /\ debug' = InitialDebug
            /\ payload' = InitialPayload(keyword, scope, date_from, max_results)
            /\ all_rows' = <<>>
            /\ scroll_id' = None
            /\ IF LoopCond(<<>>, max_results)
               THEN /\ EnterPost(payload')
                    /\ pc' = "post"
                    /\ UNCHANGED <<result, ui>>
               ELSE /\ Return(<<>>, InitialDebug)
                    /\ UNCHANGED <<attempt, resps, sleeps, calls, callPosts, sent>>
    /\ UNCHANGED <<inputVars, raised, max_retries, backoff_sec, r, posts, delays, recv>>

\* the loop body after r = _post_with_retry(...), up to the inter-page sleep
HandleResponse ==
    /\ pc = "returned"
    /\ LET dbg1 == CountPage(debug, r.status_code)
           c == Classify(r.status_code)
           data_items == DataItems(r.json)
           sid == ScrollIdAfter(scroll_id, r.json)
           dbg2 == IF IsNone(scroll_id) THEN [dbg1 EXCEPT !.scroll_id = sid] ELSE dbg1
           rows == Extended(all_rows, extract_rows(data_items.v), max_results)
           dbg3 == [dbg2 EXCEPT !.returned = Len(rows)]
       IN  IF c = "break"
           THEN /\ debug' = dbg1
                /\ Return(all_rows, dbg1)
                /\ UNCHANGED <<payload, all_rows, scroll_id, raised, recv>>
           ELSE IF c # "parse"
           THEN /\ debug' = dbg1
                /\ raised' = ErrorFor(r)
                /\ ui' = "exception"
                /\ pc' = "error"
                /\ UNCHANGED <<payload, all_rows, scroll_id, result, recv>>
           ELSE IF ~Truthy(data_items)
           THEN /\ debug' = dbg1
                /\ Return(all_rows, dbg1)
                /\ UNCHANGED <<payload, all_rows, scroll_id, raised, recv>>
           ELSE /\ scroll_id' = sid
                /\ all_rows' = rows
                /\ debug' = dbg3
                /\ recv' = Append(recv, data_items.v)
                /\ IF StopAfterPage(sid, rows, max_results)
                   THEN /\ Return(rows, dbg3)
                        /\ UNCHANGED payload
                   ELSE /\ payload' = ScrollPayload(sid)
                        /\ pc' = "delay"
                        /\ UNCHANGED <<result, ui>>
                /\ UNCHANGED raised
    /\ UNCHANGED <<inputVars, headers, max_retries, backoff_sec, attempt, r, resps,
                   sleeps, calls, posts, callPosts, delays, sent>>

\* time.sleep(max(0.0, delay_sec)); the loop test; the next _post_with_retry call
Delay ==
    /\ pc = "delay"
    /\ delays' = Append(delays, Max(0, delay_sec))
    /\ IF LoopCond(all_rows, max_results)
       THEN /\ EnterPost(payload)
            /\ pc' = "post"
            /\ UNCHANGED <<result, ui>>
       ELSE /\ Return(all_rows, debug)
            /\ UNCHANGED <<attempt, resps, sleeps, calls, callPosts, sent>>
    /\ UNCHANGED <<inputVars, headers, payload, all_rows, scroll_id, debug, raised,
                   max_retries, backoff_sec, r, posts, recv>>

----------------------------------------------------------------------------
(* The run of the page *)

Init ==
    /\ token \in Tokens
    /\ max_results \in MaxResultsSet
    /\ keyword \in KeywordsFor(max_results)
    /\ scope \in {"title+abstract"}
    /\ date_from \in {Str(<<y, "-01-01">>) : y \in Years}
    /\ delay_sec \in DelaysFor(max_results)
    /\ pc = "idle"
    /\ ui = "form"
    /\ headers = [Authorization |-> <<>>, ContentType |-> ""]
    /\ payload = NoPayload
    /\ all_rows = <<>>
    /\ scroll_id = None
    /\ debug = InitialDebug
    /\ raised = NoException
    /\ result = NoResult
    /\ max_retries = DEFAULT_MAX_RETRIES
    /\ backoff_sec = DEFAULT_BACKOFF_SEC
    /\ attempt = 0
    /\ r = NoResponse
    /\ resps = <<>>
    /\ sleeps = <<>>
    /\ calls = 0
    /\ posts = 0
    /\ callPosts = 0
    /\ delays = <<>>
    /\ recv = <<>>
    /\ sent = <<>>

Next == Run \/ Post \/ Backoff \/ HandleResponse \/ Delay

Spec == Init /\ [][Next]_vars

----------------------------------------------------------------------------
(* One call of _post_with_retry on its own, with any max_retries and backoff_sec *)

InitRetry ==
    /\ token = <<"t">>
    /\ keyword = <<"k">>
    /\ scope = "title"
    /\ date_from = None
    /\ max_results = 1
    /\ delay_sec = 0
    /\ pc = "post"
    /\ ui = "form"
    /\ headers = HeadersOf(token)
    /\ payload = InitialPayload(keyword, scope, date_from, max_results)
    /\ all_rows = <<>>
    /\ scroll_id = None
    /\ debug = InitialDebug
    /\ raised = NoException
    /\ result = NoResult
    /\ max_retries \in 0..MaxRetriesArg
    /\ backoff_sec \in 0..MaxBackoffArg
    /\ attempt = 0
    /\ r = NoResponse
    /\ resps = <<>>
    /\ sleeps = <<>>
    /\ calls = 1
    /\ posts = 0
    /\ callPosts = 0
    /\ delays = <<>>
    /\ recv = <<>>
    /\ sent = <<payload>>

NextRetry == Post \/ Backoff

SpecRetry == InitRetry /\ [][NextRetry]_vars

----------------------------------------------------------------------------
(* The first payload on its own: build_query and the size, with any arguments *)

\* everything but the inputs, pc, payload and recv, as it is before a run
RestAtStart ==
    /\ ui = "form"
    /\ headers = [Authorization |-> <<>>, ContentType |-> ""]
    /\ all_rows = <<>>
    /\ scroll_id = None
    /\ debug = InitialDebug
    /\ raised = NoException
    /\ result = NoResult
    /\ max_retries = DEFAULT_MAX_RETRIES
    /\ backoff_sec = DEFAULT_BACKOFF_SEC
    /\ attempt = 0
    /\ r = NoResponse
    /\ resps = <<>>
    /\ sleeps = <<>>
    /\ calls = 0
    /\ posts = 0
    /\ callPosts = 0
    /\ delays = <<>>
    /\ sent = <<>>

QueryKeywords == {<<>>, <<" ">>, <<"k">>, <<" ", "k", "\t">>, <<"a", " ", "b">>}
\* the four scopes of the page, and two strings that are none of them
QueryScopes == Scopes \cup {"claims", ""}
\* date_from omitted, or a date string of the page's form
QueryDates == {None, Str(<<"2018", "-01-01">>), Str(<<"1900", "-01-01">>)}
QueryCaps == {1, PAGE_SIZE_LIMIT - 1, PAGE_SIZE_LIMIT, PAGE_SIZE_LIMIT + 1, 250}

InitQuery ==
    /\ token = <<"t">>
    /\ keyword \in QueryKeywords
    /\ scope \in QueryScopes
    /\ date_from \in QueryDates
    /\ max_results \in QueryCaps
    /\ delay_sec = 0
    /\ pc = "idle"
    /\ payload = NoPayload
    /\ recv = <<>>
    /\ RestAtStart

\* payload = {"query": build_query(keyword, scope, date_from), ...}
BuildPayload ==
    /\ pc = "idle"
    /\ payload' = InitialPayload(keyword, scope, date_from, max_results)
    /\ pc' = "built"
    /\ UNCHANGED <<inputVars, ui, headers, all_rows, scroll_id, debug, raised, result,
                   max_retries, backoff_sec, attempt, r, resps, sleeps, calls, posts,
                   callPosts, delays, recv, sent>>

NextQuery == BuildPayload

SpecQuery == InitQuery /\ [][NextQuery]_vars

----------------------------------------------------------------------------
(* extract_rows on its own, with well-formed and malformed records *)

\* most records in one data list given to extract_rows on its own
MaxItems == 2

\* marks a key left out of a mapping under construction
Absent == [t |-> "absent"]
\* {k: v}, or {} when the key is left out
Opt(k, v) == IF v = Absent THEN EmptyMap ELSE k :> v

PubKeys == {"jurisdiction", "country", "doc_number", "document_number", "kind"}
PubText ==
    "jurisdiction" :> <<"US">> @@ "country" :> <<"EP">> @@ "doc_number" :> <<"123456">>
    @@ "document_number" :> <<"77">> @@ "kind" :> <<"A1">>
\* a field of publication_reference: null, empty or its text
PubValues(k) == {None, EmptyStr, Str(PubText[k])}
\* every publication_reference mapping: each key missing, null, empty or set
PubRefMaps ==
    UNION {{m \in [D -> UNION {PubValues(k) : k \in PubKeys}] :
               \A k \in D : m[k] \in PubValues(k)} : D \in SUBSET PubKeys}
\* the records that hold nothing but a publication_reference
PubRefItems == {Dict("biblio" :> Dict("publication_reference" :> Dict(m))) : m \in PubRefMaps}

TitleValues ==
    {Absent, None, EmptyDict, List(<<>>), List(<<None>>),
     Dict("text" :> Str(<<"stapler">>)),
     Dict("title" :> Str(<<"clip">>)),
     Dict("text" :> None @@ "title" :> Str(<<"clip">>)),
     Dict("text" :> None),
     List(<<Dict("text" :> Str(<<"stapler">>))>>),
     List(<<Dict("title" :> Str(<<"clip">>)), Dict("text" :> Str(<<"stapler">>))>>)}
FullPubRef == Dict([k \in PubKeys |-> Str(PubText[k])])
BiblioValues ==
    {Absent, None, EmptyDict}
    \cup {Dict(Opt("publication_reference", p) @@ Opt("invention_title", t)) :
             p \in {Absent, None, EmptyDict, FullPubRef}, t \in TitleValues}
\* the records with keys missing, mappings null and values null
SparseItems ==
    {Dict(Opt("lens_id", l) @@ Opt("biblio", b) @@ Opt("date_published", dp)
          @@ Opt("publication_date", pd)) :
        l \in {Absent, None, Str(<<"L1">>)},
        b \in BiblioValues,
        dp \in {Absent, None, Str(<<"2019-05-02">>)},
        pd \in {Absent, Str(<<"2020-01-01">>)}}

\* the data lists tried: every record alone, and the lists of the page records
ExtractInputs ==
    {<<x>> : x \in PubRefItems \cup SparseItems} \cup DataLists(MaxItems)

AttributeError == [type |-> "AttributeError", message |-> <<"object has no attribute 'get'">>]

InitExtract ==
    /\ token = <<"t">>
    /\ keyword = <<"k">>
    /\ scope = "title"
    /\ date_from = None
    /\ max_results = 1
    /\ delay_sec = 0
    /\ pc = "extract"
    /\ payload = NoPayload
    /\ recv \in {<<d>> : d \in ExtractInputs}
    /\ RestAtStart

\* rows = extract_rows(data_items)
Extract ==
    /\ pc = "extract"
    /\ IF \E i \in 1..Len(recv[1]) : ExtractRaises(recv[1][i])
       THEN raised' = AttributeError /\ pc' = "error" /\ UNCHANGED all_rows
       ELSE all_rows' = extract_rows(recv[1]) /\ pc' = "extracted" /\ UNCHANGED raised
    /\ UNCHANGED <<inputVars, ui, headers, payload, scroll_id, debug, result,
                   max_retries, backoff_sec, attempt, r, resps, sleeps, calls, posts,
                   callPosts, delays, recv, sent>>

NextExtract == Extract

SpecExtract == InitExtract /\ [][NextExtract]_vars

-----------------------------------------------------------------------------
(* The run of the page as a program that keeps running: the script is one
   thread, and requests.post with a timeout always comes back, so a step that
   can be taken is taken *)

\* lens_search_with_scroll takes any int as max_results: a negative one too
InitLive ==
    /\ token \in {<<>>, <<" ", "t">>}
    /\ keyword = <<"k", " ">>
    /\ scope = "title+abstract"
    /\ date_from = Str(<<"2018", "-01-01">>)
    /\ max_results \in -1..MaxResults
    /\ delay_sec = 2
    /\ pc = "idle"
    /\ payload = NoPayload
    /\ recv = <<>>
    /\ RestAtStart

SpecLive == InitLive /\ [][Next]_vars /\ WF_vars(Next)

----------------------------------------------------------------------------
(* Properties *)

Statuses == ErrorStatuses \cup {HTTP_OK}
FailureStatuses == Statuses \ {HTTP_OK, HTTP_NO_CONTENT}

\* the records of the first n pages received
RECURSIVE RecordsIn(_, _)
RecordsIn(pages, n) == IF n = 0 THEN 0 ELSE RecordsIn(pages, n - 1) + Len(pages[n])

\* the rows of the pages received, page by page and record by record
RECURSIVE RowsOfPages(_)
RowsOfPages(pages) ==
    IF pages = <<>> THEN <<>>
    ELSE [i \in 1..Len(Head(pages)) |-> ExtractRow(Head(pages)[i])]
         \o RowsOfPages(Tail(pages))

\* the first n elements of a sequence, or all of it
FirstN(seq, n) == [i \in 1..(IF n < Len(seq) THEN n ELSE Len(seq)) |-> seq[i]]

\* C1: the accumulated rows never exceed max_results, and from a state where they
\* have reached max_results no step begins a page request or sends a POST; a
\* first page that alone holds max_results records or more ends the search with
\* exactly max_results rows after one page request.
C1_CapEnforced ==
    /\ [](/\ Len(all_rows) <= max_results
          /\ (result.returned /\ recv # <<>> /\ Len(recv[1]) >= max_results)
                => (Len(result.df) = max_results /\ calls = 1))
    /\ [][Len(all_rows) >= max_results => (calls' = calls /\ posts' = posts)]_vars

C1_Witness ==
    /\ pc = "done"
    /\ max_results = 1
    /\ recv # <<>>
    /\ Len(recv[1]) = 2
    /\ Len(result.df) = 1
    /\ calls = 1

\* C2: a search that failed holds the exception of its last response: the 401
\* message for status 401, the 403 message for 403, and for every other status
\* the message "API Error <status>: <body>"; the three messages differ, and a
\* search past a response with a status other than 200 and 204 has failed.
C2_StatusClassified ==
    /\ pc = "error" =>
          /\ r.status_code \in FailureStatuses
          /\ raised.type = "RuntimeError"
          /\ (r.status_code = 401 <=> raised.message = MSG_401)
          /\ (r.status_code = 403 <=> raised.message = MSG_403)
          /\ r.status_code = 429 =>
                raised.message = <<"API Error ", "4", "2", "9", ": ">> \o r.text
          /\ r.status_code = 500 =>
                raised.message = <<"API Error ", "5", "0", "0", ": ">> \o r.text
    /\ pc \in {"done", "delay"} /\ calls > 0 => r.status_code \in {200, 204}

C2_Witness ==
    /\ pc = "error"
    /\ r.status_code = 500
    /\ r.text = <<"body">>
    /\ raised.message = <<"API Error ", "5", "0", "0", ": ", "body">>

\* C3: a response with a failure status ends the search in the error outcome at
\* once: nothing is returned to the handler, whatever rows were accumulated, and
\* no POST follows; within one call every response before the last was a 429, so
\* nothing but a 429 is retried.
C3_FailureAborts ==
    /\ [](/\ pc = "error" => (~result.returned /\ result = NoResult /\ ui = "exception")
          /\ \A i \in 1..Len(resps) :
                (i < Len(resps) \/ pc \in {"post", "backoff"}) => resps[i] = 429)
    /\ [][/\ (pc = "returned" /\ r.status_code \in FailureStatuses)
               => (pc' = "error" /\ posts' = posts /\ calls' = calls)
          /\ pc = "error" => (posts' = posts /\ calls' = calls)]_vars

C3_Witness ==
    /\ pc = "error"
    /\ Len(all_rows) > 0
    /\ r.status_code = 403
    /\ calls = 2
    /\ ~result.returned

\* the data of a 200 body is empty, null or missing
NoData(js) ==
    \/ "data" \notin DOMAIN js.m
    \/ js.m["data"] = None
    \/ js.m["data"] = List(<<>>)

\* the response ends the data: a 204, or a 200 with no data
EndOfData(resp) ==
    \/ resp.status_code = 204
    \/ resp.status_code = 200 /\ NoData(resp.json)

\* C4: the accumulated rows are always the first max_results rows of the pages
\* received, in page order and record order, and a normal return hands exactly
\* these to the handler; a page shorter than the page size that leaves the cap
\* unreached under a cursor is followed by the inter-page sleep, not by a return.
C4_OrderAndTruncation ==
    /\ [](/\ all_rows = FirstN(RowsOfPages(recv), max_results)
          /\ result.returned => result.df = FirstN(RowsOfPages(recv), max_results))
    /\ [][(/\ recv' # recv
           /\ Len(recv'[Len(recv')]) < PageSize(max_results)
           /\ RecordsIn(recv', Len(recv')) < max_results
           /\ scroll_id' \in ScrollIds) => pc' = "delay"]_vars

C4_Witness ==
    /\ pc = "done"
    /\ max_results = 2
    /\ recv = <<<<Item2>>, <<Item1, Item2>>>>
    /\ result.df = <<ExtractRow(Item2), ExtractRow(Item1)>>
    /\ ExtractRow(Item1) # ExtractRow(Item2)

\* every response handled so far was a 200 with data, and the first carried a cursor
AllPagesFull == debug.pages = Len(recv) /\ scroll_id \in ScrollIds

\* C5: a search that returned after nothing but 200 pages with data, under a
\* cursor, returns exactly max_results rows, and its diagnostics count as many
\* pages as page requests were made: the least n such that the first n pages
\* hold max_results records.
C5_MultiPage ==
    (pc = "done" /\ calls > 0 /\ AllPagesFull) =>
        /\ Len(result.df) = max_results
        /\ result.dbg.pages = calls
        /\ calls \in 1..Len(recv)
        /\ RecordsIn(recv, calls) >= max_results
        /\ \A n \in 0..(calls - 1) : RecordsIn(recv, n) < max_results

C5_Witness ==
    /\ pc = "done"
    /\ AllPagesFull
    /\ max_results = MaxResults
    /\ Len(recv) = MaxResults
    /\ result.dbg.pages = MaxResults
    /\ Len(result.df) = MaxResults

\* C6: a response that ends the data is followed by a normal return of exactly
\* the rows accumulated so far, with no exception and no further POST; as the
\* answer to the first page request it gives zero rows and pages = 1; and no
\* step follows a return.
C6_EndOfDataReturns ==
    [][/\ (pc = "returned" /\ EndOfData(r)) =>
              /\ pc' = "done"
              /\ result'.returned
              /\ result'.df = all_rows
              /\ raised' = NoException
              /\ posts' = posts
              /\ calls = 1 => (result'.df = <<>> /\ result'.dbg.pages = 1)
       /\ pc = "done" => (posts' = posts /\ calls' = calls)]_vars

C6_Witness ==
    /\ pc = "done"
    /\ r.status_code = 204
    /\ calls = 1
    /\ result.returned
    /\ result.df = <<>>
    /\ result.dbg.pages = 1
    /\ result.dbg.last_status = Num(204)

\* the call has returned a response that is no 429
ReturnedOther == pc = "returned" /\ r.status_code # 429

\* C7: a call that returned a response other than 429 received k >= 0 answers of
\* 429 and then that response, sent k + 1 POSTs, and slept k times, for
\* backoff_sec * 1, ..., backoff_sec * k in this order; k is at most max_retries.
C7_RetryOnRateLimit ==
    ReturnedOther =>
        LET k == Len(resps) - 1
        IN  /\ k \in 0..max_retries
            /\ \A i \in 1..k : resps[i] = 429
            /\ resps[k + 1] = r.status_code
            /\ callPosts = k + 1
            /\ sleeps = [i \in 1..k |-> backoff_sec * i]

C7_Witness ==
    /\ ReturnedOther
    /\ resps = <<429, 429, 200>>
    /\ callPosts = 3
    /\ backoff_sec = 2
    /\ sleeps = <<2, 4>>

\* C8: while every answer is a 429 the call goes on to send max_retries + 1
\* POSTs and no more, and then returns the last 429 as its value: a call that
\* returned a 429 sent exactly max_retries + 1 POSTs, all answered 429, and
\* nothing was raised.
C8_RetryExhaustion ==
    /\ callPosts <= max_retries + 1
    /\ (pc = "returned" /\ r.status_code = 429) =>
          /\ callPosts = max_retries + 1
          /\ Len(resps) = max_retries + 1
          /\ \A i \in 1..Len(resps) : resps[i] = 429
          /\ raised = NoException

C8_Witness ==
    /\ pc = "returned"
    /\ r.status_code = 429
    /\ max_retries = DEFAULT_MAX_RETRIES
    /\ callPosts = 5
    /\ raised = NoException

\* C9 as claimed: every backoff sleep is followed by another POST of the same
\* call, so a call sleeps at most max_retries times, and with the defaults only
\* for 2, 4, 6 or 8 seconds.
C9_SleepThenRetry ==
    /\ Len(sleeps) <= max_retries
    /\ \A i \in 1..Len(sleeps) : sleeps[i] \in {2, 4, 6, 8}
    /\ pc = "returned" => Len(sleeps) < callPosts

\* the token is empty or holds nothing but whitespace
BlankToken == \A i \in 1..Len(token) : token[i] \in Whitespace

\* C10: with a blank token the run sends no POST and begins no page request, and
\* ends stopped with the error message shown; no other token is stopped.
C10_BlankTokenRejected ==
    /\ BlankToken => (posts = 0 /\ calls = 0 /\ pc \in {"idle", "stopped"})
    /\ pc = "stopped" => (BlankToken /\ ui = "error" /\ ~result.returned)
    /\ (pc # "idle" /\ BlankToken) => pc = "stopped"

C10_Witness ==
    /\ pc = "stopped"
    /\ token = <<" ">>
    /\ ui = "error"
    /\ posts = 0

\* the keyword is empty once trimmed
BlankKeyword == \A i \in 1..Len(keyword) : keyword[i] \in Whitespace

\* C11 as claimed: the handler rejects a keyword that is empty after trimming
\* before it calls the search, so with such a keyword no page request begins
\* and no POST is sent.
C11_BlankKeywordRejected == BlankKeyword => (calls = 0 /\ posts = 0)

\* k is kw without its leading and trailing whitespace
IsTrimOf(k, kw) ==
    \E i \in 1..(Len(kw) + 1), j \in 0..Len(kw) :
        /\ k = SubSeq(kw, i, j)
        /\ \A n \in 1..(i - 1) : kw[n] \in Whitespace
        /\ \A n \in (j + 1)..Len(kw) : kw[n] \in Whitespace
        /\ k # <<>> => (k[1] \notin Whitespace /\ k[Len(k)] \notin Whitespace)

\* c is {"match": {field: the trimmed keyword}}
IsMatchOn(c, field) ==
    /\ DOMAIN c = {"match"}
    /\ DOMAIN c.match = {field}
    /\ IsTrimOf(c.match[field], keyword)

\* c is a should-list over exactly these fields, one match each, at least one to hold
IsShouldOver(c, fields) ==
    /\ DOMAIN c = {"bool"}
    /\ DOMAIN c.bool = {"should", "minimum_should_match"}
    /\ c.bool.minimum_should_match = 1
    /\ Len(c.bool.should) = Cardinality(fields)
    /\ \A f \in fields : \E i \in 1..Len(c.bool.should) : IsMatchOn(c.bool.should[i], f)

\* C12: the query built has one must clause: a match on title for scope "title",
\* a match on abstract for "abstract", a should-list over {title, abstract} with
\* minimum_should_match 1 for "title+abstract", and a should-list over {title,
\* abstract, claim} for any other scope; with a date_from it has exactly one
\* filter, a range on date_published with gte = date_from, and without one it
\* has no filter key at all.
C12_QueryShape ==
    pc = "built" =>
        LET q == payload.query
            must == q.bool.must
        IN  /\ DOMAIN q = {"bool"}
            /\ Len(must) = 1
            /\ scope = "title" => IsMatchOn(must[1], "title")
            /\ scope = "abstract" => IsMatchOn(must[1], "abstract")
            /\ scope = "title+abstract" => IsShouldOver(must[1], {"title", "abstract"})
            /\ scope \notin {"title", "abstract", "title+abstract"}
                  => IsShouldOver(must[1], {"title", "abstract", "claim"})
            /\ date_from # None =>
                  /\ DOMAIN q.bool = {"must", "filter"}
                  /\ q.bool.filter = <<[range |-> [date_published |-> [gte |-> date_from]]]>>
            /\ date_from = None => DOMAIN q.bool = {"must"}

C12_Witness ==
    /\ pc = "built"
    /\ scope = "abstract"
    /\ keyword = <<" ", "k", "\t">>
    /\ date_from = Str(<<"2018", "-01-01">>)
    /\ payload.query.bool.must = <<[match |-> ("abstract" :> <<"k">>)]>>
    /\ Len(payload.query.bool.filter) = 1

RowFields ==
    {"lens_id", "title", "jurisdiction", "doc_number", "kind", "date_published",
     "lens_link", "google_patents_link"}

\* C13 as claimed: extract_rows never fails and gives one row per record, each
\* with exactly the eight fields, every one of them a string.
C13_TotalAndStrings ==
    /\ pc # "error"
    /\ pc = "extracted" =>
          /\ Len(all_rows) = Len(recv[1])
          /\ \A i \in 1..Len(all_rows) :
                /\ DOMAIN all_rows[i] = RowFields
                /\ \A f \in RowFields : all_rows[i][f].t = "str"

\* the publication_reference mapping of a record, {} when missing or null
PubMapOf(item) ==
    LET b == IF "biblio" \in DOMAIN item.m /\ item.m["biblio"].t = "dict"
             THEN item.m["biblio"].m ELSE EmptyMap
    IN  IF "publication_reference" \in DOMAIN b /\ b["publication_reference"].t = "dict"
        THEN b["publication_reference"].m ELSE EmptyMap

\* the text under a key, empty when the key is missing, null or empty
TextAt(m, k) == IF k \in DOMAIN m /\ m[k].t = "str" THEN m[k].v ELSE <<>>

\* the text under key a, or under key b when there is none under a
TextWithFallback(m, a, b) == IF TextAt(m, a) # <<>> THEN TextAt(m, a) ELSE TextAt(m, b)

\* the link the claim gives for a publication_reference mapping
LinkFor(m) ==
    LET j == TextWithFallback(m, "jurisdiction", "country")
        d == TextWithFallback(m, "doc_number", "document_number")
        k == TextAt(m, "kind")
    IN  IF j # <<>> /\ d # <<>> /\ k # <<>>
        THEN <<"https://patents.google.com/patent/">> \o j \o d \o k
        ELSE IF j # <<>> /\ d # <<>>
        THEN <<"https://patents.google.com/patent/">> \o j \o d
        ELSE <<>>

\* C14: the google_patents_link of every row is the prefix with jurisdiction,
\* doc_number and kind when all three are there, the prefix with jurisdiction
\* and doc_number when only kind is not, and empty when jurisdiction or
\* doc_number is not, jurisdiction standing for country and doc_number for
\* document_number when the first of each pair is missing, null or empty.
C14_GoogleLink ==
    pc = "extracted" =>
        \A i \in 1..Len(recv[1]) :
            all_rows[i].google_patents_link = Str(LinkFor(PubMapOf(recv[1][i])))

C14_Witness ==
    /\ pc = "extracted"
    /\ Len(recv[1]) = 1
    /\ PubMapOf(recv[1][1]) = ("jurisdiction" :> None @@ "country" :> Str(<<"EP">>)
                               @@ "doc_number" :> Str(<<"123456">>))
    /\ all_rows[1].google_patents_link
          = Str(<<"https://patents.google.com/patent/", "EP", "123456">>)

\* C15: the first page request carries query, include, scroll and size, with
\* size = min(100, max_results), and no scroll_id; every later one carries
\* exactly scroll_id and include, the same in all of them, and the scroll_id of
\* the second is the one in the first response, a 200, whatever later responses
\* carry.
C15_CursorProtocol ==
    /\ [](\A i \in 1..Len(sent) :
            /\ i = 1 =>
                  /\ DOMAIN sent[1] = {"query", "include", "scroll", "size"}
                  /\ sent[1].size = (IF max_results < 100 THEN max_results ELSE 100)
                  /\ sent[1].scroll = "1m"
                  /\ DOMAIN sent[1].query = {"bool"}
            /\ i > 1 =>
                  /\ DOMAIN sent[i] = {"scroll_id", "include"}
                  /\ sent[i].include = sent[1].include
                  /\ sent[i].scroll_id = sent[2].scroll_id)
    /\ [][(calls = 1 /\ calls' = 2) =>
             /\ r.status_code = 200
             /\ "scroll_id" \in DOMAIN r.json.m
             /\ sent'[2].scroll_id = r.json.m["scroll_id"]]_vars

C15_Witness ==
    /\ calls = 3
    /\ pc = "post"
    /\ attempt = 0
    /\ max_results = 101
    /\ sent[1].size = 100
    /\ sent[3].scroll_id = Str(<<"c1">>)
    /\ r.status_code = 200
    /\ "scroll_id" \in DOMAIN r.json.m
    /\ r.json.m["scroll_id"] = Str(<<"c2">>)

\* C16: a 429 that _post_with_retry returns came after max_retries + 1 POSTs,
\* and the search past it has failed with "API Error 429: <body>" and handed
\* nothing to the handler; it is never past it in any other way.
C16_ExhaustedRateLimitFails ==
    /\ (pc = "returned" /\ r.status_code = 429) => callPosts = max_retries + 1
    /\ (r.status_code = 429 /\ pc \notin {"post", "backoff", "returned"}) =>
          /\ pc = "error"
          /\ callPosts = max_retries + 1
          /\ raised.message = <<"API Error ", "4", "2", "9", ": ">> \o r.text
          /\ result = NoResult

C16_Witness ==
    /\ pc = "error"
    /\ r.status_code = 429
    /\ resps = <<429, 429, 429, 429, 429>>
    /\ Len(all_rows) > 0
    /\ ~result.returned

\* the body carries no cursor: scroll_id is missing, null or empty
NoCursor(js) ==
    \/ "scroll_id" \notin DOMAIN js.m
    \/ js.m["scroll_id"] = None
    \/ js.m["scroll_id"] = EmptyStr

\* C17: once the first response, a 200 with data and no cursor, is handled, the
\* search has returned after that one page request with the rows of that page,
\* at most max_results of them.
C17_NoCursorSinglePage ==
    (/\ calls = 1
     /\ pc \notin {"post", "backoff", "returned"}
     /\ r.status_code = 200
     /\ ~NoData(r.json)
     /\ NoCursor(r.json)) =>
        /\ pc = "done"
        /\ posts = callPosts
        /\ result.returned
        /\ result.df = FirstN(RowsOfPages(<<r.json.m["data"].v>>), max_results)
        /\ result.dbg.pages = 1

C17_Witness ==
    /\ pc = "done"
    /\ calls = 1
    /\ max_results = 2
    /\ r.status_code = 200
    /\ ~NoData(r.json)
    /\ "scroll_id" \in DOMAIN r.json.m
    /\ r.json.m["scroll_id"] = EmptyStr
    /\ Len(r.json.m["data"].v) = 1
    /\ Len(result.df) = 1

\* C18 as claimed: when the first response is a 200 that carries a scroll_id and
\* the search returns on it, the diagnostics returned hold that scroll_id,
\* whether its data list is empty or not.
C18_CursorInDiagnostics ==
    (/\ pc = "done"
     /\ calls = 1
     /\ r.status_code = 200
     /\ "scroll_id" \in DOMAIN r.json.m
     /\ r.json.m["scroll_id"] \in ScrollIds) =>
        result.dbg.scroll_id = r.json.m["scroll_id"]

\* C19: a search that has begun p >= 1 page requests has slept p - 1 times
\* between pages, each time for max(0, delay_sec), in every state up to and
\* including its return or failure; before the first request it has not slept.
C19_DelayPlacement ==
    /\ calls = 0 => delays = <<>>
    /\ calls >= 1 => Len(delays) = calls - 1
    /\ \A i \in 1..Len(delays) : delays[i] = (IF delay_sec > 0 THEN delay_sec ELSE 0)

C19_Witness ==
    /\ pc = "error"
    /\ calls = 2
    /\ delay_sec = -1
    /\ delays = <<0>>

\* the search is over: it returned, it failed, or the handler stopped before it
Finished == pc \in {"done", "error", "stopped"}

\* C20: when every POST is answered, the run of the page ends; a page that does
\* not end the loop adds at least one row; the search begins at most
\* max(0, max_results) page requests, each of at most max_retries + 1 POSTs,
\* and none at all when max_results <= 0.
C20_Termination ==
    /\ <>Finished
    /\ [](/\ calls <= (IF max_results > 0 THEN max_results ELSE 0)
          /\ callPosts <= max_retries + 1
          /\ posts <= calls * (max_retries + 1)
          /\ max_results <= 0 => (calls = 0 /\ posts = 0))
    /\ [][pc' = "delay" => Len(all_rows') > Len(all_rows)]_vars

C20_Witness ==
    /\ pc = "done"
    /\ max_results = 2
    /\ calls = 2
    /\ posts = 2 * (max_retries + 1)
    /\ Len(result.df) = 2

====
